---------------------------- MODULE Spec2Model ----------------------------
(***************************************************************************)
(* A model of rustyline's Unix terminal backend (src/tty/unix.rs):         *)
(*   - StdinRaw::read and PosixRawReader (next_key, next_char,             *)
(*     escape_sequence) over the stdin character device,                   *)
(*   - the SIGWINCH flag, its handler and PosixTerminal::sigwinch,         *)
(*   - PosixTerminal::new / enable_raw_mode and Mode::disable_raw_mode.    *)
(* Codepoints are ASCII codes, so one codepoint is one byte of the device. *)
(***************************************************************************)
EXTENDS Integers, Sequences, FiniteSets, TLC

\* ------------------------------------------------------------------ bounds
\* Longest run of follow-up codepoints after the codepoint that varies.
MaxTail == 1
\* Longest input made only of ordinary (non-escape) sample codepoints.
MaxPlain == 3

\* -------------------------------------------------------------- codepoints
\* The character literals of escape_sequence and the control bytes, by name.
Ch ==
  [ NUL |-> 0, SOH |-> 1, BS |-> 8, CR |-> 13, SUB |-> 26, ESC |-> 27,
    FS |-> 28, US |-> 31, DEL |-> 127,
    LBRACKET |-> 91, SEMI |-> 59, TILDE |-> 126, LT |-> 60, GT |-> 62,
    d1 |-> 49, d2 |-> 50, d3 |-> 51, d4 |-> 52, d5 |-> 53, d6 |-> 54,
    d7 |-> 55, d8 |-> 56, d9 |-> 57,
    A |-> 65, B |-> 66, C |-> 67, D |-> 68, E |-> 69, F |-> 70, H |-> 72,
    L |-> 76, O |-> 79, T |-> 84, U |-> 85, Y |-> 89,
    a |-> 97, b |-> 98, c |-> 99, d |-> 100, f |-> 102, l |-> 108,
    t |-> 116, u |-> 117, x |-> 120, y |-> 121,
    e |-> 101, m |-> 109, n |-> 110, o |-> 111, r |-> 114, s |-> 115,
    M |-> 77, N |-> 78, S |-> 83 ]

\* The codepoints the terminal may send in the model (the letters that only
\* spell terminal names are left out).
Codepoints ==
  { Ch[n] : n \in DOMAIN Ch \ {"e", "m", "n", "o", "r", "s", "M", "N", "S"} }

\* ------------------------------------------------------------- key events
\* consts::Key: a character or a named key.
Char(c) == [name |-> "Char", ch |-> c]
Named(n) == [name |-> n, ch |-> 0]

\* The key!, alt! and ctrl! macros of consts: a Key with its modifier flags.
key(k) == [key |-> k, ctrl |-> FALSE, alt |-> FALSE]
alt(k) == [key |-> k, ctrl |-> FALSE, alt |-> TRUE]
ctrl(k) == [key |-> k, ctrl |-> TRUE, alt |-> FALSE]

NoKey == [key |-> Named("-"), ctrl |-> FALSE, alt |-> FALSE]

\* Result<KeyPress>: Ok(key), Err(ReadlineError::Eof), Err(<os error>).
Ok(k) == [tag |-> "Ok", key |-> k]
ErrEof == [tag |-> "Eof", key |-> NoKey]
ErrOs == [tag |-> "OsError", key |-> NoKey]
\* No call has returned yet, or a call is in progress.
NoResult == [tag |-> "None", key |-> NoKey]

\* consts::char_to_key_press, the base mapping: the control range and DEL
\* give the corresponding letter with ctrl, ESC the Escape key, every other
\* codepoint itself.
char_to_key_press(c) ==
  IF c = Ch.ESC THEN key(Named("Esc"))
  ELSE IF c \in 0..31 \/ c = Ch.DEL THEN ctrl(Char((c + 64) % 128))
  ELSE key(Char(c))


\* ------------------------------------------------- escape-sequence resolver
\* escape_sequence has to read another codepoint before it can decide.
More == [tag |-> "More", key |-> NoKey]

\* ArrowKey with the Right and Left arms exchanged.
ArrowKey_swapped(c) ==
  CASE c = Ch.A -> Named("Up")
    [] c = Ch.B -> Named("Down")
    [] c = Ch.C -> Named("Left")
    [] c = Ch.D -> Named("Right")
    [] c = Ch.F -> Named("End")
    [] c = Ch.H -> Named("Home")
    [] OTHER -> Named("Unknown")

\* The six arrow/End/Home arms shared by the `[`, `[1;3`, `[1;5` and `O`
\* matches: the Key each final letter names, Unknown for any other.
ArrowKey(c) ==
  CASE c = Ch.A -> Named("Up")
    [] c = Ch.B -> Named("Down")
    [] c = Ch.C -> Named("Right")
    [] c = Ch.D -> Named("Left")
    [] c = Ch.F -> Named("End")
    [] c = Ch.H -> Named("Home")
    [] OTHER -> Named("Unknown")

\* `'~' => Ok(key!(k)), _ => Ok(key!(Key::Unknown))`
TildeArm(c, k) ==
  IF c = Ch.TILDE THEN Ok(key(Named(k))) ELSE Ok(key(Named("Unknown")))

\* escape_sequence that reads a fixed six codepoints of every `[` sequence
\* before it decides.
escape_sequence_six(s) ==
  IF s[1] = Ch.LBRACKET /\ Len(s) < 6 THEN More ELSE Ok(key(Named("Unknown")))

\* PosixRawReader::escape_sequence as a function of the codepoints s it has
\* read so far after ESC (Len(s) >= 1): the nested match, top down.  More
\* stands for the next try!(self.next_char()).
escape_sequence(s) ==
  LET n == Len(s) IN
  IF s[1] = Ch.LBRACKET THEN
    IF n < 2 THEN More
    ELSE IF s[2] = Ch.d1 THEN
      IF n < 3 THEN More
      ELSE IF s[3] = Ch.SEMI THEN
        IF n < 4 THEN More
        ELSE IF s[4] = Ch.d3 THEN
          IF n < 5 THEN More
          ELSE IF ArrowKey(s[5]) = Named("Unknown")
               THEN Ok(key(Named("Unknown"))) ELSE Ok(alt(ArrowKey(s[5])))
        ELSE IF s[4] = Ch.d5 THEN
          IF n < 5 THEN More
          ELSE IF ArrowKey(s[5]) = Named("Unknown")
               THEN Ok(key(Named("Unknown"))) ELSE Ok(ctrl(ArrowKey(s[5])))
        ELSE Ok(key(Named("Unknown")))
      ELSE IF s[3] = Ch.TILDE THEN Ok(key(Named("Home")))
      ELSE Ok(key(Named("Unknown")))
    ELSE IF s[2] = Ch.d3 THEN (IF n < 3 THEN More ELSE TildeArm(s[3], "Delete"))
    ELSE IF s[2] = Ch.d4 THEN (IF n < 3 THEN More ELSE TildeArm(s[3], "End"))
    ELSE IF s[2] = Ch.d5 THEN (IF n < 3 THEN More ELSE TildeArm(s[3], "PageUp"))
    ELSE IF s[2] = Ch.d6 THEN (IF n < 3 THEN More ELSE TildeArm(s[3], "PageDown"))
    ELSE IF s[2] = Ch.d7 THEN (IF n < 3 THEN More ELSE TildeArm(s[3], "Home"))
    ELSE IF s[2] = Ch.d8 THEN (IF n < 3 THEN More ELSE TildeArm(s[3], "End"))
    ELSE Ok(key(ArrowKey(s[2])))
  ELSE IF s[1] = Ch.O THEN
    IF n < 2 THEN More ELSE Ok(key(ArrowKey(s[2])))
  ELSE IF s[1] = Ch.BS THEN Ok(alt(Char(Ch.BS)))
  ELSE IF s[1] = Ch.LT THEN Ok(alt(Char(Ch.LT)))
  ELSE IF s[1] = Ch.GT THEN Ok(alt(Char(Ch.GT)))
  ELSE IF s[1] \in {Ch.b, Ch.B} THEN Ok(alt(Char(Ch.B)))
  ELSE IF s[1] \in {Ch.c, Ch.C} THEN Ok(alt(Char(Ch.C)))
  ELSE IF s[1] \in {Ch.d, Ch.D} THEN Ok(alt(Char(Ch.D)))
  ELSE IF s[1] \in {Ch.f, Ch.F} THEN Ok(alt(Char(Ch.F)))
  ELSE IF s[1] \in {Ch.l, Ch.L} THEN Ok(alt(Char(Ch.L)))
  ELSE IF s[1] \in {Ch.t, Ch.T} THEN Ok(alt(Char(Ch.T)))
  ELSE IF s[1] \in {Ch.u, Ch.U} THEN Ok(alt(Char(Ch.U)))
  ELSE IF s[1] \in {Ch.y, Ch.Y} THEN Ok(alt(Char(Ch.Y)))
  ELSE IF s[1] = Ch.DEL THEN Ok(alt(Char(Ch.DEL)))
  ELSE Ok(key(Named("Unknown")))


\* ------------------------------------------------------------------- state
VARIABLES
  input,       \* the codepoints the terminal sends during this run
  arrived,     \* how many of them are in the kernel's stdin queue or beyond
  rdpos,       \* how many of them read(2) has handed to the process
  closed,      \* the stream has ended: read(2) returns 0 once the queue is empty
  pc,          \* where the main thread is: idle, or inside a call
  timeout_ms,  \* next_key's argument
  seq,         \* the codepoints escape_sequence has matched so far
  taken,       \* the codepoints the current (or last) next_key call took off stdin
  polled,      \* how that call's poll(2) ended, "none" if it made none
  ret,         \* what the last next_key call returned
  nEvents,     \* how many Ok(key) results next_key has returned
  lastread,    \* how the last libc::read of the current (or last) call ended
  SIGWINCH,    \* static SIGWINCH: AtomicBool
  eintr,       \* a signal handler ran while the main thread was blocked in a
               \* system call, which now fails with EINTR
  SIGWINCH_ONCE, \* static SIGWINCH_ONCE: Once ("new" until call_once has run)
  installed,   \* sigwinch_handler is the process's SIGWINCH disposition
  nSigaction,  \* how many times sigaction(SIGWINCH, ..) has been called
  notified,    \* a notification was delivered since the last sigwinch() swap
  unreported,  \* a notification was delivered that no sigwinch() has reported yet
  owed,        \* notified, as it was when the last sigwinch() swapped the flag
  casv,        \* what the last compare_and_swap of sigwinch() returned
  TERM,        \* the environment's TERM: env::var's result
  stdin_tty,   \* isatty(STDIN_FILENO)
  stdout_tty,  \* isatty(STDOUT_FILENO)
  term,        \* the PosixTerminals constructed in this process, oldest first
  termios,     \* the line-discipline attributes of the stdin device
  modes,       \* the Mode snapshots the caller holds, oldest first
  pre,         \* the device attributes just before the enable that gave modes[i]
  due,         \* while the successful calls so far are enables followed by
               \* restorations in reverse order: the snapshot to restore next
               \* (0 when all are restored); -1 once that order is broken
  sys,         \* the termios calls the last facade operation made
  fret         \* what the last facade operation returned

devVars == <<input, arrived, rdpos, closed>>
keyVars == <<pc, timeout_ms, seq, taken, polled, ret, nEvents, lastread>>
sigVars == <<SIGWINCH, eintr>>
winVars == <<SIGWINCH_ONCE, installed, nSigaction, notified, unreported, owed, casv>>
envVars == <<TERM, stdin_tty, stdout_tty>>
rawVars == <<termios, modes, pre, due, sys, fret>>
vars == <<devVars, keyVars, sigVars, winVars, envVars, term, rawVars>>

\* ------------------------------------------------------------ stdin device
\* poll(2) reports STDIN readable: a byte is queued (POLLIN) or the stream
\* has ended (POLLHUP, or a read that would return 0).
Ready == rdpos < arrived \/ closed

\* The main thread sits in read(2) or poll(2) with nothing to return yet.
Blocked ==
  /\ pc \in {"next_char", "escape_sequence", "poll"}
  /\ ~Ready

\* How libc::read(STDIN_FILENO, buf, 1) can end in this state: one byte, 0 at
\* the end of the stream, -1/EINTR after a signal, -1 with another errno at
\* any time; it does not return while nothing of this holds.
ReadOutcomes ==
  IF eintr THEN {"EINTR"}
  ELSE (IF rdpos < arrived THEN {"byte"} ELSE IF closed THEN {"zero"} ELSE {})
       \cup {"EIO"}

\* How poll(&mut fds, timeout_ms) can end in this state: Ok(1) when stdin is
\* readable, Ok(0) when the timeout (>= 0) elapses first, Err(EINTR) after a
\* signal, Err of another errno at any time.
PollOutcomes ==
  IF eintr THEN {"EINTR"}
  ELSE (IF Ready THEN {"ready"} ELSE IF timeout_ms >= 0 THEN {"timeout"} ELSE {})
       \cup {"ENOMEM"}

\* The terminal delivers its next codepoint to the stdin queue.
Arrive ==
  /\ ~closed
  /\ arrived < Len(input)
  /\ arrived' = arrived + 1
  /\ UNCHANGED <<input, rdpos, closed, keyVars, sigVars, winVars, envVars, term, rawVars>>

\* The terminal hangs up after its last codepoint.
Close ==
  /\ ~closed
  /\ arrived = Len(input)
  /\ closed' = TRUE
  /\ UNCHANGED <<input, arrived, rdpos, keyVars, sigVars, winVars, envVars, term, rawVars>>

\* --------------------------------------------------------- StdinRaw, reader
\* read_retries that swallows every failure of libc::read.
read_retries_any_error(out) == out \in {"EINTR", "EIO"}

\* StdinRaw::read: which outcomes of libc::read make the loop go round again
\* instead of returning.
read_retries(out) == out = "EINTR"

\* PosixRawReader::next_char over char_iter::Chars<StdinRaw>, for a read that
\* returned: Some(Ok(c)) -> Ok(c), None (a 0-byte read) -> Err(Eof),
\* Some(Err(e)) -> Err(e).
next_char(out) ==
  CASE out = "byte" -> [tag |-> "Char", c |-> input[rdpos + 1]]
    [] out = "zero" -> [tag |-> "Eof", c |-> 0]
    [] OTHER -> [tag |-> "OsError", c |-> 0]

\* ReadEffect of a buffered reader: a read takes every queued codepoint off
\* stdin, not only the one next_char hands on.
ReadEffect_buffered(out) ==
  /\ rdpos' = IF out = "byte" THEN arrived ELSE rdpos
  /\ taken' = IF out = "byte" THEN taken \o SubSeq(input, rdpos + 1, arrived) ELSE taken

\* ReadEffect of a read that leaves the codepoint it returns in the queue.
ReadEffect_peek(out) ==
  /\ rdpos' = rdpos
  /\ taken' = IF out = "byte" THEN Append(taken, input[rdpos + 1]) ELSE taken

\* What a returned read does to the device and to the call's record of it.
ReadEffect(out) ==
  /\ rdpos' = IF out = "byte" THEN rdpos + 1 ELSE rdpos
  /\ taken' = IF out = "byte" THEN Append(taken, input[rdpos + 1]) ELSE taken

\* next_key returns r to its caller; its argument goes out of scope.
Return(r) ==
  /\ pc' = "idle"
  /\ timeout_ms' = 0
  /\ ret' = r
  /\ nEvents' = IF r.tag = "Ok" THEN nEvents + 1 ELSE nEvents

\* The error next_key's try! propagates for a failed next_char.
ErrOf(r) == IF r.tag = "Eof" THEN ErrEof ELSE ErrOs

\* poll_branch that takes Ok(0) for the start of an escape sequence.
poll_branch_eager(out) ==
  CASE out = "timeout" -> "escape_sequence"
    [] out = "ready" -> "escape_sequence"
    [] OTHER -> "return_err"

\* poll_branch that takes a failed poll for stdin being ready.
poll_branch_ignore_error(out) ==
  CASE out = "timeout" -> "single_escape"
    [] OTHER -> "escape_sequence"

\* next_key's match on poll's result: Ok(0) is a single escape, Ok(n > 0)
\* starts escape_sequence, Err(e) is returned.
poll_branch(out) ==
  CASE out = "timeout" -> "single_escape"
    [] out = "ready" -> "escape_sequence"
    [] OTHER -> "return_err"

\* The timeouts a caller passes: none (poll blocks for ever) and half a
\* second (time is not measured: any timeout >= 0 may elapse).
Timeouts == {-1, 500}

\* is_escape that also takes every ctrl-modified key for the start of an
\* escape sequence.
is_escape_any_control(k) == k = key(Named("Esc")) \/ k.ctrl

\* next_key line 199: whether the first key starts escape disambiguation.
is_escape(k) == k = key(Named("Esc"))

\* The caller enters next_key(timeout_ms).
NextKeyCall ==
  /\ pc = "idle"
  /\ \E t \in Timeouts : timeout_ms' = t
  /\ pc' = "next_char"
  /\ seq' = <<>>
  /\ taken' = <<>>
  /\ polled' = "none"
  /\ ret' = NoResult
  /\ lastread' = "none"
  /\ UNCHANGED <<devVars, nEvents, sigVars, winVars, envVars, term, rawVars>>

\* next_key line 196-199: the first next_char, then char_to_key_press.
NextKeyFirstChar ==
  /\ pc = "next_char"
  /\ \E out \in ReadOutcomes :
       /\ lastread' = out
       /\ IF read_retries(out)
          THEN /\ eintr' = FALSE
               /\ UNCHANGED <<devVars, pc, timeout_ms, seq, taken, polled, ret, nEvents>>
          ELSE /\ ReadEffect(out)
               /\ eintr' = FALSE
               /\ LET r == next_char(out) IN
                  IF r.tag # "Char" THEN Return(ErrOf(r))
                  ELSE IF is_escape(char_to_key_press(r.c))
                       THEN pc' = "poll" /\ UNCHANGED <<timeout_ms, ret, nEvents>>
                       ELSE Return(Ok(char_to_key_press(r.c)))
               /\ UNCHANGED <<input, arrived, closed, seq, polled>>
  /\ UNCHANGED <<SIGWINCH, winVars, envVars, term, rawVars>>

\* next_key line 200-212: the readiness poll after ESC.
NextKeyPoll ==
  /\ pc = "poll"
  /\ \E out \in PollOutcomes :
       /\ polled' = out
       /\ CASE poll_branch(out) = "single_escape" -> Return(Ok(key(Named("Esc"))))
            [] poll_branch(out) = "escape_sequence" ->
                 pc' = "escape_sequence" /\ UNCHANGED <<timeout_ms, ret, nEvents>>
            [] OTHER -> Return(ErrOs)
  /\ eintr' = FALSE
  /\ UNCHANGED <<devVars, seq, taken, lastread, SIGWINCH, winVars, envVars, term, rawVars>>

\* escape_sequence: one try!(self.next_char()) and the match arm it selects.
EscapeSequenceChar ==
  /\ pc = "escape_sequence"
  /\ \E out \in ReadOutcomes :
       /\ lastread' = out
       /\ IF read_retries(out)
          THEN /\ eintr' = FALSE
               /\ UNCHANGED <<devVars, pc, timeout_ms, seq, taken, polled, ret, nEvents>>
          ELSE /\ ReadEffect(out)
               /\ eintr' = FALSE
               /\ LET r == next_char(out) IN
                  IF r.tag # "Char"
                  THEN Return(ErrOf(r)) /\ seq' = seq
                  ELSE /\ seq' = Append(seq, r.c)
                       /\ IF escape_sequence(Append(seq, r.c)) = More
                          THEN UNCHANGED <<pc, timeout_ms, ret, nEvents>>
                          ELSE Return(escape_sequence(Append(seq, r.c)))
               /\ UNCHANGED <<input, arrived, closed, polled>>
  /\ UNCHANGED <<SIGWINCH, winVars, envVars, term, rawVars>>

\* ---------------------------------------------------------------- SIGWINCH
\* sigwinch_handler, run by the kernel on a window change once it is the
\* SIGWINCH disposition: SIGWINCH.store(true, SeqCst).  A thread blocked in
\* read or poll is interrupted (the handler is installed with empty SaFlags,
\* so without SA_RESTART).
sigwinch_handler ==
  /\ installed
  /\ SIGWINCH' = TRUE
  /\ eintr' = Blocked
  /\ notified' = TRUE
  /\ unreported' = TRUE
  /\ UNCHANGED <<devVars, keyVars, SIGWINCH_ONCE, installed, nSigaction, owed, casv,
                 envVars, term, rawVars>>

\* compare_and_swap that returns the previous value and stores nothing.
compare_and_swap_load_only(v, current, new) == [stored |-> v, prev |-> v]

\* AtomicBool::compare_and_swap(current, new) on a flag holding v: the value
\* stored afterwards and the previous value, which is returned.
compare_and_swap(v, current, new) ==
  [stored |-> IF v = current THEN new ELSE v, prev |-> v]

\* The caller enters PosixTerminal::sigwinch.
SigwinchCall ==
  /\ pc = "idle"
  /\ term # <<>>
  /\ pc' = "sigwinch"
  /\ UNCHANGED <<devVars, timeout_ms, seq, taken, polled, ret, nEvents, lastread, sigVars,
                 winVars, envVars, term, rawVars>>

\* sigwinch as a load followed by a separate store of false: the handler may
\* run between the two.
SigwinchLoadThenStore ==
  /\ \/ /\ pc = "sigwinch"
        /\ casv' = SIGWINCH
        /\ owed' = notified
        /\ notified' = FALSE
        /\ unreported' = IF SIGWINCH THEN FALSE ELSE unreported
        /\ pc' = "sigwinch_store"
        /\ UNCHANGED SIGWINCH
     \/ /\ pc = "sigwinch_store"
        /\ SIGWINCH' = IF casv THEN FALSE ELSE SIGWINCH
        /\ pc' = "sigwinch_ret"
        /\ UNCHANGED <<casv, owed, notified, unreported>>
  /\ UNCHANGED <<devVars, timeout_ms, seq, taken, polled, ret, nEvents, lastread, eintr,
                 SIGWINCH_ONCE, installed, nSigaction, envVars, term, rawVars>>

\* sigwinch line 323: the atomic compare_and_swap(true, false, SeqCst).
SigwinchSwap ==
  /\ pc = "sigwinch"
  /\ LET r == compare_and_swap(SIGWINCH, TRUE, FALSE) IN
       /\ SIGWINCH' = r.stored
       /\ casv' = r.prev
       /\ unreported' = IF r.prev THEN FALSE ELSE unreported
  /\ owed' = notified
  /\ notified' = FALSE
  /\ pc' = "sigwinch_ret"
  /\ UNCHANGED <<devVars, timeout_ms, seq, taken, polled, ret, nEvents, lastread, eintr,
                 SIGWINCH_ONCE, installed, nSigaction, envVars, term, rawVars>>

\* sigwinch returns the swapped-out value to the caller.
SigwinchReturn ==
  /\ pc = "sigwinch_ret"
  /\ pc' = "idle"
  /\ UNCHANGED <<devVars, timeout_ms, seq, taken, polled, ret, nEvents, lastread, sigVars,
                 winVars, envVars, term, rawVars>>

\* ------------------------------------------------------ capability detection
\* u8::to_ascii_lowercase.
to_ascii_lowercase(c) == IF c \in 65..90 THEN c + 32 ELSE c

\* eq_ignore_ascii_case that compares the bytes as they are.
eq_case_sensitive(a, b) == a = b

\* str::eq_ignore_ascii_case.
eq_ignore_ascii_case(a, b) ==
  /\ Len(a) = Len(b)
  /\ \A i \in 1..Len(a) : to_ascii_lowercase(a[i]) = to_ascii_lowercase(b[i])

\* static UNSUPPORTED_TERM = ["dumb", "cons25", "emacs"].
UNSUPPORTED_TERM ==
  << <<Ch.d, Ch.u, Ch.m, Ch.b>>,
     <<Ch.c, Ch.o, Ch.n, Ch.s, Ch.d2, Ch.d5>>,
     <<Ch.e, Ch.m, Ch.a, Ch.c, Ch.s>> >>

\* is_unsupported_term for env::var("TERM") = v: Ok(name) or Err.
is_unsupported_term(v) ==
  IF v.ok
  THEN \E i \in 1..Len(UNSUPPORTED_TERM) : eq_ignore_ascii_case(UNSUPPORTED_TERM[i], v.name)
  ELSE FALSE

\* new_installs that looks at stdin only.
new_installs_stdin_only(t) == ~t.unsupported /\ t.stdin_isatty

\* PosixTerminal::new line 259: whether the constructor calls
\* install_sigwinch_handler.
new_installs(t) == ~t.unsupported /\ t.stdin_isatty /\ stdout_tty

\* The facades constructed in one process at most.
MaxFacades == 2

\* call_once without the Once: the closure runs on every call.
call_once_every_call(once) == TRUE

\* Once::call_once on a Once in the given state: whether this call runs the
\* closure (the first call does, and every other call waits for it).
call_once(once) == once = "new"

\* PosixTerminal::new with install_sigwinch_handler, on whichever thread: the
\* Once runs the closure on its first call only; the closure calls sigaction
\* and drops its result, so a failed registration goes unnoticed.
PosixTerminal_new ==
  /\ Len(term) < MaxFacades
  /\ LET t == [unsupported |-> is_unsupported_term(TERM), stdin_isatty |-> stdin_tty] IN
       /\ term' = Append(term, t)
       /\ IF new_installs(t) /\ call_once(SIGWINCH_ONCE)
          THEN /\ SIGWINCH_ONCE' = "done"
               /\ nSigaction' = nSigaction + 1
               /\ \E registered \in BOOLEAN : installed' = registered
          ELSE UNCHANGED <<SIGWINCH_ONCE, nSigaction, installed>>
  /\ UNCHANGED <<devVars, keyVars, sigVars, notified, unreported, owed, casv, envVars, rawVars>>

\* The main thread constructs a facade between two of its calls.
New ==
  /\ pc = "idle"
  /\ PosixTerminal_new

\* Another thread constructs a facade while the main thread is inside a call.
NewOnThread ==
  /\ pc # "idle"
  /\ PosixTerminal_new

\* ----------------------------------------------------------------- raw mode
\* termios flag constants, as the sets of bits they stand for.
BRKINT == {"BRKINT"}
ICRNL == {"ICRNL"}
INPCK == {"INPCK"}
ISTRIP == {"ISTRIP"}
IXON == {"IXON"}
CS8 == {"CS6", "CS7"}
ECHO == {"ECHO"}
ICANON == {"ICANON"}
IEXTEN == {"IEXTEN"}
ISIG == {"ISIG"}

\* raw_mode with the output processing switched off as well (the assignment
\* to c_oflag the source keeps commented out).
raw_mode_opost(original_mode) ==
  [ c_iflag |-> original_mode.c_iflag \ (BRKINT \cup ICRNL \cup INPCK \cup ISTRIP \cup IXON),
    c_oflag |-> original_mode.c_oflag \ {"OPOST"},
    c_cflag |-> original_mode.c_cflag \cup CS8,
    c_lflag |-> original_mode.c_lflag \ (ECHO \cup ICANON \cup IEXTEN \cup ISIG),
    c_cc |-> [original_mode.c_cc EXCEPT !.VMIN = 1, !.VTIME = 0] ]

\* enable_raw_mode line 301-311: the raw attributes derived from the
\* original ones.
raw_mode(original_mode) ==
  [ c_iflag |-> original_mode.c_iflag \ (BRKINT \cup ICRNL \cup INPCK \cup ISTRIP \cup IXON),
    c_oflag |-> original_mode.c_oflag,
    c_cflag |-> original_mode.c_cflag \cup CS8,
    c_lflag |-> original_mode.c_lflag \ (ECHO \cup ICANON \cup IEXTEN \cup ISIG),
    c_cc |-> [original_mode.c_cc EXCEPT !.VMIN = 1, !.VTIME = 0] ]

\* not_a_terminal without the check.
not_a_terminal_unchecked(t) == FALSE

\* enable_raw_mode line 297: the facade refuses a stdin that was no terminal
\* when it was constructed.
not_a_terminal(t) == ~t.stdin_isatty

\* enable_returns handing back the attributes it has just applied.
enable_returns_applied(original_mode, raw) == raw

\* enable_raw_mode line 313: the Mode handed back on success.
enable_returns(original_mode, raw) == original_mode

\* disable_applies that switches echo and canonical mode back on whatever
\* the snapshot says.
disable_applies_cooked(mode) == [mode EXCEPT !.c_lflag = @ \cup ECHO \cup ICANON]

\* Mode::disable_raw_mode line 64: the attributes tcsetattr is given.
disable_applies(mode) == mode

\* tcgetattr and tcsetattr on STDIN may fail; on a stdin that is no terminal
\* they always do (ENOTTY).
TermiosCallOk == IF stdin_tty THEN BOOLEAN ELSE {FALSE}

\* The snapshots the caller holds at most.
MaxModes == 2

\* PosixTerminal::enable_raw_mode, the whole call.
EnableRawMode ==
  /\ pc = "idle"
  /\ term # <<>>
  /\ Len(modes) < MaxModes
  /\ IF not_a_terminal(term[1])
     THEN /\ fret' = [op |-> "enable", tag |-> "NotATerminal"]
          /\ sys' = <<>>
          /\ UNCHANGED <<termios, modes, pre, due>>
     ELSE \E getok \in TermiosCallOk, setok \in TermiosCallOk :
            IF ~getok
            THEN /\ fret' = [op |-> "enable", tag |-> "OsError"]
                 /\ sys' = <<"tcgetattr">>
                 /\ UNCHANGED <<termios, modes, pre, due>>
            ELSE IF ~setok
            THEN /\ fret' = [op |-> "enable", tag |-> "OsError"]
                 /\ sys' = <<"tcgetattr", "tcsetattr">>
                 /\ UNCHANGED <<termios, modes, pre, due>>
            ELSE /\ fret' = [op |-> "enable", tag |-> "Ok"]
                 /\ sys' = <<"tcgetattr", "tcsetattr">>
                 /\ termios' = raw_mode(termios)
                 /\ modes' = Append(modes, enable_returns(termios, raw_mode(termios)))
                 /\ pre' = Append(pre, termios)
                 /\ due' = IF due = Len(modes) THEN Len(modes) + 1 ELSE -1
  /\ UNCHANGED <<devVars, keyVars, sigVars, winVars, envVars, term>>

\* Mode::disable_raw_mode on the i-th snapshot the caller holds.
DisableRawMode ==
  /\ pc = "idle"
  /\ \E i \in 1..Len(modes), setok \in TermiosCallOk :
       /\ sys' = <<"tcsetattr">>
       /\ IF setok
          THEN /\ termios' = disable_applies(modes[i])
               /\ fret' = [op |-> "disable", tag |-> "Ok", i |-> i]
               /\ due' = IF due = i THEN i - 1 ELSE -1
          ELSE /\ fret' = [op |-> "disable", tag |-> "OsError", i |-> i]
               /\ UNCHANGED <<termios, due>>
  /\ UNCHANGED <<devVars, keyVars, sigVars, winVars, envVars, term, modes, pre>>

\* ------------------------------------------------------------------ inputs
\* The codepoints that follow the one that varies.
Follow == {Ch.d9, Ch.ESC}
Tails == UNION { [1..n -> Follow] : n \in 0..MaxTail }

\* What escape_sequence may have read when it asks for another codepoint.
EscPrefixes ==
  { <<>>, <<Ch.LBRACKET>>, <<Ch.O>>,
    <<Ch.LBRACKET, Ch.d1>>, <<Ch.LBRACKET, Ch.d3>>, <<Ch.LBRACKET, Ch.d4>>,
    <<Ch.LBRACKET, Ch.d5>>, <<Ch.LBRACKET, Ch.d6>>, <<Ch.LBRACKET, Ch.d7>>,
    <<Ch.LBRACKET, Ch.d8>>, <<Ch.LBRACKET, Ch.d1, Ch.SEMI>>,
    <<Ch.LBRACKET, Ch.d1, Ch.SEMI, Ch.d3>>,
    <<Ch.LBRACKET, Ch.d1, Ch.SEMI, Ch.d5>> }

\* ESC, a prefix, any codepoint, a tail.
EscInputs ==
  { <<Ch.ESC>> \o p \o <<c>> \o t : p \in EscPrefixes, c \in Codepoints, t \in Tails }

\* Inputs without ESC: any codepoint and a tail, and short runs of samples.
PlainSample == {Ch.SOH, Ch.a, Ch.DEL}
PlainInputs ==
  { <<c>> \o t : c \in Codepoints, t \in Tails }
  \cup UNION { [1..n -> PlainSample] : n \in 0..MaxPlain }

KeyInputs == EscInputs \cup PlainInputs \cup {<<Ch.ESC>>}

\* What env::var("TERM") may give in a session.
Name(n) == [ok |-> TRUE, name |-> n]
Unset == [ok |-> FALSE, name |-> <<>>]
SessionTerms ==
  { Unset, Name(<<Ch.x, Ch.t, Ch.e, Ch.r, Ch.m>>), Name(<<Ch.D, Ch.u, Ch.m, Ch.b>>) }

\* Every spelling of a name in upper and lower case, given the two spellings.
CaseVariants(lower, upper) ==
  { [i \in 1..Len(lower) |-> IF up[i] THEN upper[i] ELSE lower[i]] :
      up \in [1..Len(lower) -> BOOLEAN] }

\* The listed terminal names in every case variant.
DeniedSpellings ==
  CaseVariants(<<Ch.d, Ch.u, Ch.m, Ch.b>>, <<Ch.D, Ch.U, Ch.M, Ch.B>>)
  \cup CaseVariants(<<Ch.c, Ch.o, Ch.n, Ch.s, Ch.d2, Ch.d5>>, <<Ch.C, Ch.O, Ch.N, Ch.S, Ch.d2, Ch.d5>>)
  \cup CaseVariants(<<Ch.e, Ch.m, Ch.a, Ch.c, Ch.s>>, <<Ch.E, Ch.M, Ch.A, Ch.C, Ch.S>>)

\* Names that are not listed: another terminal, the empty name, a listed
\* name cut short, extended or preceded, and `cons25` with its digits
\* shifted by a case bit (0x32 -> 0x12 is DC2; 0x35 -> 0x55 is U).
OtherSpellings ==
  { <<Ch.x, Ch.t, Ch.e, Ch.r, Ch.m>>,
    <<>>,
    <<Ch.d, Ch.u, Ch.m>>,
    <<Ch.d, Ch.u, Ch.m, Ch.b, Ch.o>>,
    <<Ch.x, Ch.e, Ch.m, Ch.a, Ch.c, Ch.s>>,
    <<Ch.c, Ch.o, Ch.n, Ch.s, Ch.d2>>,
    <<Ch.c, Ch.o, Ch.n, Ch.s, Ch.d2, Ch.U>>,
    <<Ch.e, Ch.m, Ch.a, Ch.c, Ch.d5>> }

\* What env::var("TERM") may give, for the deny-list check.
TermNames == { Name(n) : n \in DeniedSpellings \cup OtherSpellings } \cup {Unset}

\* The attributes the device may have when the process starts: the usual
\* cooked mode, and an unusual one.
Cooked ==
  [ c_iflag |-> {"BRKINT", "ICRNL", "IXON", "IMAXBEL"},
    c_oflag |-> {"OPOST", "ONLCR"},
    c_cflag |-> {"CS7", "CREAD"},
    c_lflag |-> {"ECHO", "ICANON", "IEXTEN", "ISIG", "ECHOE"},
    c_cc |-> [VMIN |-> 4, VTIME |-> 2, VINTR |-> 3] ]
Unusual ==
  [ c_iflag |-> {"INPCK", "ISTRIP", "IGNBRK"},
    c_oflag |-> {},
    c_cflag |-> {"CS6", "CS7", "PARENB"},
    c_lflag |-> {"ECHO", "NOFLSH"},
    c_cc |-> [VMIN |-> 0, VTIME |-> 5, VINTR |-> 3] ]
InitialModes == {Cooked, Unusual}

\* What the terminal sends in a session.
SessionInputs ==
  { <<Ch.a, Ch.SOH>>, <<Ch.ESC, Ch.LBRACKET, Ch.A>> }

\* ---------------------------------------------------------- specifications
\* The reader before its first call.
ReaderInit ==
  /\ arrived = 0
  /\ rdpos = 0
  /\ closed = FALSE
  /\ pc = "idle"
  /\ timeout_ms = 0
  /\ seq = <<>>
  /\ taken = <<>>
  /\ polled = "none"
  /\ ret = NoResult
  /\ nEvents = 0
  /\ lastread = "none"
  /\ eintr = FALSE

\* No raw-mode call has been made.
RawInit ==
  /\ modes = <<>>
  /\ pre = <<>>
  /\ due = 0
  /\ sys = <<>>
  /\ fret = [op |-> "none", tag |-> "None"]

\* The flag before any notification or poll.
FlagInit ==
  /\ SIGWINCH = FALSE
  /\ notified = FALSE
  /\ unreported = FALSE
  /\ owed = FALSE
  /\ casv = FALSE

\* A process at its start, on any terminal: no facade yet.
Init ==
  /\ input \in SessionInputs
  /\ TERM \in SessionTerms
  /\ stdin_tty \in BOOLEAN
  /\ stdout_tty \in BOOLEAN
  /\ termios \in InitialModes
  /\ term = <<>>
  /\ SIGWINCH_ONCE = "new"
  /\ installed = FALSE
  /\ nSigaction = 0
  /\ ReaderInit
  /\ RawInit
  /\ FlagInit

Next ==
  \/ Arrive
  \/ Close
  \/ NextKeyCall
  \/ NextKeyFirstChar
  \/ NextKeyPoll
  \/ EscapeSequenceChar
  \/ sigwinch_handler
  \/ New
  \/ NewOnThread
  \/ SigwinchCall
  \/ SigwinchSwap
  \/ SigwinchReturn
  \/ EnableRawMode
  \/ DisableRawMode

Spec == Init /\ [][Next]_vars

\* The key decoder alone, on a capable interactive terminal whose facade has
\* been constructed and has registered the handler, over every input.
InitKeys ==
  /\ input \in KeyInputs
  /\ TERM = Name(<<Ch.x, Ch.t, Ch.e, Ch.r, Ch.m>>)
  /\ stdin_tty = TRUE
  /\ stdout_tty = TRUE
  /\ termios = Cooked
  /\ term = <<[unsupported |-> FALSE, stdin_isatty |-> TRUE]>>
  /\ SIGWINCH_ONCE = "done"
  /\ installed = TRUE
  /\ nSigaction = 1
  /\ ReaderInit
  /\ RawInit
  /\ FlagInit

NextKeys ==
  \/ Arrive
  \/ Close
  \/ NextKeyCall
  \/ NextKeyFirstChar
  \/ NextKeyPoll
  \/ EscapeSequenceChar
  \/ sigwinch_handler

SpecKeys == InitKeys /\ [][NextKeys]_vars

\* Facade construction and the resize flag alone, under every TERM.
InitTerm ==
  /\ input = <<Ch.a, Ch.SOH>>
  /\ TERM \in TermNames
  /\ stdin_tty \in BOOLEAN
  /\ stdout_tty \in BOOLEAN
  /\ termios = Cooked
  /\ term = <<>>
  /\ SIGWINCH_ONCE = "new"
  /\ installed = FALSE
  /\ nSigaction = 0
  /\ ReaderInit
  /\ RawInit
  /\ FlagInit

NextTerm ==
  \/ New
  \/ NewOnThread
  \/ sigwinch_handler
  \/ SigwinchCall
  \/ SigwinchSwap
  \/ SigwinchReturn

SpecTerm == InitTerm /\ [][NextTerm]_vars

\* ------------------------------------------------------------------ claims
\* The Escape key event.
EscKey == key(Named("Esc"))
\* The Unknown key event.
UnknownKey == key(Named("Unknown"))

\* C1: when the poll after ESC times out (no further byte became ready
\* before the timeout elapsed), that step makes next_key return Ok(Escape),
\* one more key event, without taking anything but the ESC off stdin.
C1_LoneEscape ==
  [][ (pc = "poll" /\ polled' = "timeout")
        => /\ pc' = "idle"
           /\ ret' = Ok(EscKey)
           /\ nEvents' = nEvents + 1
           /\ rdpos' = rdpos
           /\ taken' = <<Ch.ESC>> ]_vars

\* A call has returned the Escape key after its poll timed out.
C1_Witness ==
  /\ pc = "idle"
  /\ polled = "timeout"
  /\ ret = Ok(EscKey)
  /\ taken = <<Ch.ESC>>

\* The recognised-families table of the specification, as data: the final
\* letters of the arrow family, and the digits of the `[d~` family.
TableArrows ==
  { <<Ch.A, "Up">>, <<Ch.B, "Down">>, <<Ch.C, "Right">>, <<Ch.D, "Left">>,
    <<Ch.F, "End">>, <<Ch.H, "Home">> }
TableTildes ==
  { <<Ch.d1, "Home">>, <<Ch.d7, "Home">>, <<Ch.d3, "Delete">>, <<Ch.d4, "End">>,
    <<Ch.d8, "End">>, <<Ch.d5, "PageUp">>, <<Ch.d6, "PageDown">> }
\* Alt+<normalised character>: each listed character with the character it
\* is normalised to.
TableAltChars ==
  { <<Ch.LT, Ch.LT>>, <<Ch.GT, Ch.GT>>, <<Ch.BS, Ch.BS>>, <<Ch.DEL, Ch.DEL>>,
    <<Ch.b, Ch.B>>, <<Ch.B, Ch.B>>, <<Ch.c, Ch.C>>, <<Ch.C, Ch.C>>,
    <<Ch.d, Ch.D>>, <<Ch.D, Ch.D>>, <<Ch.f, Ch.F>>, <<Ch.F, Ch.F>>,
    <<Ch.l, Ch.L>>, <<Ch.L, Ch.L>>, <<Ch.t, Ch.T>>, <<Ch.T, Ch.T>>,
    <<Ch.u, Ch.U>>, <<Ch.U, Ch.U>>, <<Ch.y, Ch.Y>>, <<Ch.Y, Ch.Y>> }
\* The table's rows: <<the codepoints after ESC, the key event>>.
RecognisedTable ==
  { <<<<Ch.LBRACKET, a[1]>>, key(Named(a[2]))>> : a \in TableArrows }
  \cup { <<<<Ch.O, a[1]>>, key(Named(a[2]))>> : a \in TableArrows }
  \cup { <<<<Ch.LBRACKET, Ch.d1, Ch.SEMI, Ch.d3, a[1]>>, alt(Named(a[2]))>> : a \in TableArrows }
  \cup { <<<<Ch.LBRACKET, Ch.d1, Ch.SEMI, Ch.d5, a[1]>>, ctrl(Named(a[2]))>> : a \in TableArrows }
  \cup { <<<<Ch.LBRACKET, d[1], Ch.TILDE>>, key(Named(d[2]))>> : d \in TableTildes }
  \cup { <<<<c[1]>>, alt(Char(c[2]))>> : c \in TableAltChars }
\* What the table gives for the codepoints s after ESC: the row's key event,
\* Unknown when no row lists s.
TableResult(s) ==
  IF \E row \in RecognisedTable : row[1] = s
  THEN (CHOOSE row \in RecognisedTable : row[1] = s)[2]
  ELSE UnknownKey

\* C2: whenever next_key returns a key event after its poll found stdin
\* ready, the event is the one the recognised-families table lists for the
\* codepoints the call took after ESC, and Unknown when the table has no row
\* for them.
C2_TableResult ==
  (pc = "idle" /\ polled = "ready" /\ ret.tag = "Ok")
    => ret.key = TableResult(Tail(taken))

\* ESC [ 1 ; 3 A has been decoded as Alt+Up.
C2_Witness ==
  /\ pc = "idle"
  /\ polled = "ready"
  /\ taken = <<Ch.ESC, Ch.LBRACKET, Ch.d1, Ch.SEMI, Ch.d3, Ch.A>>
  /\ ret = Ok(alt(Named("Up")))

\* The codepoints s decide escape_sequence's result and no proper prefix of
\* s does: s is exactly what the match examined.
ExaminedExactly(s) ==
  /\ s # <<>>
  /\ escape_sequence(s) # More
  /\ \A k \in 1..(Len(s) - 1) : escape_sequence(SubSeq(s, 1, k)) = More

\* C3: a call that returns a key event for an escape sequence has taken off
\* stdin the ESC and exactly the codepoints it examined to choose the event,
\* they are the input up to the read position, so the next call starts at the
\* first unexamined codepoint; on the input ESC [ 9 9 the call returns
\* Unknown having taken ESC [ 9, and the next key event is the second 9.
C3_ConsumesExamined ==
  /\ (pc = "idle" /\ polled = "ready" /\ ret.tag = "Ok")
       => /\ taken = <<Ch.ESC>> \o seq
          /\ ExaminedExactly(seq)
          /\ ret = escape_sequence(seq)
          /\ rdpos >= Len(taken)
          /\ taken = SubSeq(input, rdpos - Len(taken) + 1, rdpos)
  /\ (input = <<Ch.ESC, Ch.LBRACKET, Ch.d9, Ch.d9>> /\ pc = "idle" /\ ret.tag = "Ok")
       => /\ polled = "ready" => (rdpos = 3 /\ ret = Ok(UnknownKey))
          /\ rdpos = 4 => (ret = Ok(key(Char(Ch.d9))) /\ taken = <<Ch.d9>>)

\* On ESC [ 9 9 a call has returned Unknown with the second 9 left unread.
C3_Witness ==
  /\ input = <<Ch.ESC, Ch.LBRACKET, Ch.d9, Ch.d9>>
  /\ pc = "idle"
  /\ arrived = 4
  /\ rdpos = 3
  /\ taken = <<Ch.ESC, Ch.LBRACKET, Ch.d9>>
  /\ ret = Ok(UnknownKey)

\* C4: once its first byte is read, the only wait of a next_key call is the
\* poll after ESC: the call is never inside escape_sequence waiting in a
\* read for a codepoint while the terminal has sent all it will send and the
\* stream stays open.
C4_OnlyBoundedWait ==
  ~ ( /\ pc = "escape_sequence"
      /\ ~eintr
      /\ rdpos = arrived
      /\ arrived = Len(input)
      /\ ~closed )

\* C5: a call that returns because the stream ended while escape_sequence
\* had read a proper, non-empty prefix of a recognised sequence returns the
\* Unknown key event (an OsError return is a failed read, not the end of the
\* stream).
C5_PartialIsUnknown ==
  ( /\ pc = "idle"
    /\ polled = "ready"
    /\ seq # <<>>
    /\ escape_sequence(seq) = More
    /\ ret.tag # "OsError" )
    => ret = Ok(UnknownKey)

\* The input holds neither ESC nor NUL.
PlainInput == \A i \in 1..Len(input) : input[i] \notin {Ch.ESC, Ch.NUL}

\* The base mapping as claim C6 words it: 0x01-0x1A and 0x7F give their
\* letter with ctrl, every other codepoint itself.
ClaimedBaseMapping(c) ==
  IF c \in 1..26 THEN [key |-> Char(c + 64), ctrl |-> TRUE, alt |-> FALSE]
  ELSE IF c = 127 THEN [key |-> Char(63), ctrl |-> TRUE, alt |-> FALSE]
  ELSE [key |-> Char(c), ctrl |-> FALSE, alt |-> FALSE]

\* The base mapping with the whole control range: 0x01-0x1F (0x1B apart)
\* and 0x7F give their key with ctrl, every other codepoint itself.
ControlRangeMapping(c) ==
  IF c \in 1..31 THEN [key |-> Char(c + 64), ctrl |-> TRUE, alt |-> FALSE]
  ELSE ClaimedBaseMapping(c)

\* One key event per codepoint under the mapping m: each call that returns a
\* key event took exactly one codepoint, the next of the input, polled
\* nothing, returned m of that codepoint, and is the rdpos-th event.
OnePerCodepoint(m(_)) ==
  (PlainInput /\ pc = "idle" /\ ret.tag = "Ok")
    => /\ rdpos >= 1
       /\ taken = <<input[rdpos]>>
       /\ polled = "none"
       /\ nEvents = rdpos
       /\ ret.key = m(input[rdpos])

C7_TrueIffNotified ==
  pc = "sigwinch_ret" => (casv <=> owed)

\* A sigwinch() is about to return true for a delivered notification.
C7_Witness ==
  /\ pc = "sigwinch_ret"
  /\ casv
  /\ owed
  /\ ~SIGWINCH

\* C8: under every interleaving of the handler with sigwinch(), the flag is
\* set exactly while a delivered notification is unreported: none is lost
\* (the next swap reports it), none is reported twice, and a notification
\* delivered after the swap of a call in progress is kept for the next call.
C8_NoneLostNoneTwice ==
  /\ SIGWINCH <=> unreported
  /\ (pc = "sigwinch_ret" /\ notified) => SIGWINCH

\* The handler ran between the swap of a sigwinch() and its return, after
\* that swap had reported an earlier notification.
C8_Witness ==
  /\ pc = "sigwinch_ret"
  /\ casv
  /\ notified
  /\ SIGWINCH

\* C9: enable_raw_mode on a facade constructed on a stdin that is no
\* terminal returns NotATerminal, makes no termios call, and leaves the
\* device attributes as they were.
C9_NotATerminal ==
  [][ (EnableRawMode /\ ~term[1].stdin_isatty)
        => /\ fret'.tag = "NotATerminal"
           /\ sys' = <<>>
           /\ termios' = termios ]_vars

\* enable_raw_mode has returned NotATerminal.
C9_Witness ==
  /\ term # <<>>
  /\ ~term[1].stdin_isatty
  /\ fret = [op |-> "enable", tag |-> "NotATerminal"]

\* C10: every snapshot a successful enable_raw_mode returned equals the
\* device attributes just before that call, and after a successful
\* disable_raw_mode of a snapshot the device attributes equal those
\* pre-enable attributes, whatever next_key calls were made meanwhile.
C10_RoundTrip ==
  /\ Len(modes) = Len(pre)
  /\ \A i \in 1..Len(modes) : modes[i] = pre[i]
  /\ (fret.op = "disable" /\ fret.tag = "Ok") => termios = pre[fret.i]

\* Raw mode was entered from attributes it changes, keys were decoded, and
\* the snapshot has been restored.
C10_Witness ==
  /\ fret = [op |-> "disable", tag |-> "Ok", i |-> 1]
  /\ Len(modes) = 1
  /\ nEvents > 0
  /\ termios = pre[1]
  /\ raw_mode(pre[1]) # pre[1]

\* C11: after a successful enable_raw_mode the device attributes differ from
\* the captured ones exactly so: BRKINT, ICRNL, INPCK, ISTRIP, IXON are clear
\* in the input flags, the CS8 bits are set in the control flags, ECHO,
\* ICANON, IEXTEN, ISIG are clear in the local flags, VMIN is 1 and VTIME 0;
\* every other flag bit, the output flags and every other control character
\* are as captured.
C11_RawAttributes ==
  (fret = [op |-> "enable", tag |-> "Ok"])
    => LET captured == modes[Len(modes)]
           iclear == {"BRKINT", "ICRNL", "INPCK", "ISTRIP", "IXON"}
           lclear == {"ECHO", "ICANON", "IEXTEN", "ISIG"}
           cset == {"CS6", "CS7"}
       IN /\ termios.c_iflag \cap iclear = {}
          /\ termios.c_iflag \cup iclear = captured.c_iflag \cup iclear
          /\ cset \subseteq termios.c_cflag
          /\ termios.c_cflag \ cset = captured.c_cflag \ cset
          /\ termios.c_lflag \cap lclear = {}
          /\ termios.c_lflag \cup lclear = captured.c_lflag \cup lclear
          /\ termios.c_oflag = captured.c_oflag
          /\ termios.c_cc.VMIN = 1
          /\ termios.c_cc.VTIME = 0
          /\ DOMAIN termios.c_cc = DOMAIN captured.c_cc
          /\ \A k \in DOMAIN captured.c_cc \ {"VMIN", "VTIME"} :
                termios.c_cc[k] = captured.c_cc[k]

\* Raw mode has been entered from the cooked attributes: flags were cleared,
\* a CS8 bit was set, and OPOST and IMAXBEL are still there.
C11_Witness ==
  /\ fret = [op |-> "enable", tag |-> "Ok"]
  /\ Len(modes) = 1
  /\ modes[1] = Cooked
  /\ "OPOST" \in termios.c_oflag
  /\ "IMAXBEL" \in termios.c_iflag
  /\ "ICRNL" \notin termios.c_iflag
  /\ "CS6" \in termios.c_cflag

\* C12: however many facades are constructed in the process, by the main
\* thread between its calls or by another thread during them, sigaction for
\* SIGWINCH is called at most once, and not at all while the Once is new.
C12_RegisteredOnce ==
  /\ nSigaction <= 1
  /\ SIGWINCH_ONCE = "new" => nSigaction = 0
  /\ SIGWINCH_ONCE = "done" => nSigaction = 1

\* Two facades have been constructed on a capable terminal and the handler
\* was registered once.
C12_Witness ==
  /\ Len(term) >= 2
  /\ new_installs(term[1])
  /\ new_installs(term[2])
  /\ nSigaction = 1

\* C13 (as claimed): once a facade has been constructed,
\* install_sigwinch_handler has run exactly if stdin is a terminal and TERM is
\* not on the deny-list.
C13_Claimed ==
  term # <<>>
    => (SIGWINCH_ONCE = "done" <=> (term[1].stdin_isatty /\ ~term[1].unsupported))

\* C13 (amended): once a facade has been constructed,
\* install_sigwinch_handler has run exactly if stdin and stdout are both
\* terminals and TERM is not on the deny-list.
C13_InstallsIff ==
  /\ term = <<>> => SIGWINCH_ONCE = "new"
  /\ term # <<>>
       => (SIGWINCH_ONCE = "done"
             <=> (term[1].stdin_isatty /\ stdout_tty /\ ~term[1].unsupported))

\* A facade was constructed on a capable terminal whose stdout is redirected:
\* the handler was not installed.
C13_Witness ==
  /\ term # <<>>
  /\ term[1].stdin_isatty
  /\ ~term[1].unsupported
  /\ ~stdout_tty
  /\ SIGWINCH_ONCE = "new"
  /\ ~installed

\* C14: the unsupported flag a facade captures is true exactly when TERM is
\* set to a listed name (dumb, cons25, emacs) in any mix of upper and lower
\* case; any other name, the empty name and an unset TERM give false.
C14_DenyList ==
  \A i \in 1..Len(term) :
    term[i].unsupported <=> (TERM.ok /\ TERM.name \in DeniedSpellings)

\* A facade was constructed under TERM=Dumb and is flagged unsupported.
C14_Witness ==
  /\ TERM = Name(<<Ch.D, Ch.u, Ch.m, Ch.b>>)
  /\ term # <<>>
  /\ term[1].unsupported

\* C15: StdinRaw::read swallows only the interruption.  A libc::read that
\* ended with EINTR is never what the call returns: the call is still in its
\* read loop, about to read again.  Any other failure is returned as OsError,
\* a zero-length read is returned by the decoder as Eof, and a read of one
\* byte hands on that byte, the next of the input.
C15_OnlyInterruptionSwallowed ==
  /\ lastread = "EINTR" => (pc \in {"next_char", "escape_sequence"} /\ ret = NoResult)
  /\ lastread = "EIO" => ret = ErrOs
  /\ lastread = "zero" => (ret = ErrEof /\ closed /\ rdpos = arrived)
  /\ lastread = "byte"
       => /\ rdpos >= 1
          /\ taken # <<>>
          /\ taken[Len(taken)] = input[rdpos]
          /\ ret.tag # "Eof"
  /\ ret = ErrEof => lastread = "zero"

\* A read inside escape_sequence was interrupted by the window-change
\* handler and is being retried, ESC [ already taken.
C15_Witness ==
  /\ lastread = "EINTR"
  /\ pc = "escape_sequence"
  /\ SIGWINCH
  /\ ~eintr
  /\ taken = <<Ch.ESC, Ch.LBRACKET>>
  /\ ret = NoResult

\* C16 (as claimed): a call that returns a key event from escape_sequence
\* examined at least 1 and at most 4 codepoints after ESC.
C16_Claimed ==
  (pc = "idle" /\ polled = "ready" /\ ret.tag = "Ok")
    => (Len(seq) >= 1 /\ Len(seq) <= 4)

\* C16 (amended): a call that returns a key event from escape_sequence
\* examined at least 1 and at most 5 codepoints after ESC, all of them taken
\* off stdin after the ESC, and escape_sequence never holds more than 5,
\* whatever follows in the input.
C16_OneToFive ==
  /\ Len(seq) <= 5
  /\ (pc = "idle" /\ polled = "ready" /\ ret.tag = "Ok")
       => /\ Len(seq) >= 1
          /\ Len(taken) = Len(seq) + 1

\* ESC [ 1 ; 5 D was decoded as Ctrl+Left from five codepoints after ESC,
\* with a further codepoint queued and left unread.
C16_Witness ==
  /\ pc = "idle"
  /\ polled = "ready"
  /\ seq = <<Ch.LBRACKET, Ch.d1, Ch.SEMI, Ch.d5, Ch.D>>
  /\ ret = Ok(ctrl(Named("Left")))
  /\ rdpos < arrived

\* C17: the step on which the poll after ESC fails makes next_key return
\* OsError at once: the call does not poll again, does not enter
\* escape_sequence, and has taken nothing but the ESC off stdin; no key event
\* is counted.
C17_PollFailureReturned ==
  [][ (pc = "poll" /\ polled' \in {"EINTR", "ENOMEM"})
        => /\ pc' = "idle"
           /\ ret' = ErrOs
           /\ seq' = <<>>
           /\ taken' = <<Ch.ESC>>
           /\ rdpos' = rdpos
           /\ nEvents' = nEvents ]_vars

\* A call has returned OsError for a failed poll while the codepoint after
\* ESC was queued, and left it unread.
C17_Witness ==
  /\ pc = "idle"
  /\ polled = "ENOMEM"
  /\ ret = ErrOs
  /\ taken = <<Ch.ESC>>
  /\ seq = <<>>
  /\ rdpos < arrived

\* C18: every next_key call that returns a key event took at least one
\* codepoint off stdin, so the key events never outnumber the codepoints
\* read, which never outnumber the n codepoints of the input; a call that
\* returns having taken nothing (the stream had ended) returns Eof or an OS
\* error, never a key event.
C18_ForwardProgress ==
  /\ nEvents <= rdpos
  /\ rdpos <= Len(input)
  /\ (pc = "idle" /\ ret.tag = "Ok") => Len(taken) >= 1
  /\ (pc = "idle" /\ ret # NoResult /\ taken = <<>>) => ret.tag \in {"Eof", "OsError"}
  /\ (pc = "idle" /\ ret = ErrEof) => (closed /\ rdpos = Len(input))

\* ESC [ A and one more codepoint gave two key events from four codepoints,
\* and the call after the end of the stream returned Eof.
C18_Witness ==
  /\ Len(input) = 4
  /\ input[1] = Ch.ESC
  /\ closed
  /\ rdpos = 4
  /\ nEvents = 2
  /\ pc = "idle"
  /\ taken = <<>>
  /\ ret = ErrEof

\* C19: a window-change notification delivered during a next_key call never
\* makes the call fail: whenever next_key has returned an OS error, a read or
\* the poll failed for another reason than the interruption by the handler.
C19_NotificationHarmless ==
  (pc = "idle" /\ ret = ErrOs) => (lastread = "EIO" \/ polled = "ENOMEM")

\* The attributes m are raw: what enable_raw_mode clears is clear, the CS8
\* bits are set, reads return single bytes and block.
RawAttributes(m) ==
  /\ m.c_iflag \cap {"BRKINT", "ICRNL", "INPCK", "ISTRIP", "IXON"} = {}
  /\ {"CS6", "CS7"} \subseteq m.c_cflag
  /\ m.c_lflag \cap {"ECHO", "ICANON", "IEXTEN", "ISIG"} = {}
  /\ m.c_cc.VMIN = 1
  /\ m.c_cc.VTIME = 0

\* C20: while the successful raw-mode calls are enables followed by
\* restorations in reverse order of acquisition: once every snapshot is
\* restored the device attributes are those before the first enable; every
\* snapshot but the first was taken in raw mode and holds raw attributes;
\* and as long as the first snapshot is not restored the device stays in raw
\* mode, with the attributes the last restored snapshot captured.
C20_NestedRestore ==
  /\ (due = 0 /\ modes # <<>>) => termios = pre[1]
  /\ due # -1 => \A i \in 2..Len(modes) : (RawAttributes(modes[i]) /\ modes[i] = pre[i])
  /\ (due >= 1 /\ due < Len(modes))
       => (RawAttributes(termios) /\ termios = modes[due + 1])

\* Two nested enables from attributes that raw mode changes, the inner
\* snapshot restored and then the outer: the device is back where it was.
C20_Witness ==
  /\ Len(modes) = 2
  /\ due = 0
  /\ fret = [op |-> "disable", tag |-> "Ok", i |-> 1]
  /\ modes[2] # modes[1]
  /\ termios = pre[1]
  /\ ~RawAttributes(termios)

=============================================================================
